---- MODULE Spec2Model ----
(***************************************************************************)
(* A model of the mapper crawler (package crawler): the URL queue with its *)
(* seen-set, the URL validator, the worker pool started by Crawler.Start,  *)
(* the unbuffered results channel and the goroutine that closes it.        *)
(***************************************************************************)
EXTENDS Integers, Sequences, FiniteSets, TLC

\* ------------------------------------------------------------------------
\* Bounds of the model
\* ------------------------------------------------------------------------
MaxWorkers == 2        \* MaxConcurrent ranges over 1..MaxWorkers
MaxDepthBound == 2     \* MaxDepth ranges over 0..MaxDepthBound

\* ------------------------------------------------------------------------
\* URLs (net/url.URL as the crawler uses it)
\* ------------------------------------------------------------------------
\* A path is a sequence of segments; a segment is a name and the extension
\* that ends it ("" when it has none).  <<>> is the empty path, <<Seg("")>>
\* is "/", <<Seg("docs"), Seg("")>> is "/docs/".
Seg(n) == [name |-> n, ext |-> ""]
File(n, e) == [name |-> n, ext |-> e]
MkURL(s, h, p, q) ==
    [scheme |-> s, host |-> h, path |-> p, query |-> q, frag |-> "", rootless |-> FALSE]

\* no URL (a nil *url.URL)
NoURL == MkURL("", "", <<>>, "")

RECURSIVE PathString(_)
PathString(p) ==
    IF p = <<>> THEN <<>>
    ELSE <<"/", Head(p).name, Head(p).ext>> \o PathString(Tail(p))

\* url.URL.String(): scheme ":" "//" host path "?" query "#" fragment, as a
\* token sequence; a rootless path (no host before it) has no leading "/"
String(u) ==
    (IF u.scheme # "" THEN <<u.scheme, ":">> ELSE <<>>)
        \o (IF u.host # "" THEN <<"//", u.host>> ELSE <<>>)
        \o (IF u.rootless /\ u.host = "" /\ u.path # <<>>
            THEN Tail(PathString(u.path)) ELSE PathString(u.path))
        \o (IF u.query # "" THEN <<"?", u.query>> ELSE <<>>)
        \o (IF u.frag # "" THEN <<"#", u.frag>> ELSE <<>>)

\* the path segments of the tokens "/" name ext "/" name ext ...
RECURSIVE ParsePath(_)
ParsePath(t) ==
    IF Len(t) < 3 THEN <<>>
    ELSE <<[name |-> t[2], ext |-> t[3]]>> \o ParsePath(SubSeq(t, 4, Len(t)))

\* url.Parse on a token sequence
ParseURL(t) ==
    LET hasFrag == Len(t) >= 2 /\ t[Len(t) - 1] = "#"
        t1 == IF hasFrag THEN SubSeq(t, 1, Len(t) - 2) ELSE t
        hasScheme == Len(t1) >= 2 /\ t1[2] = ":"
        t2 == IF hasScheme THEN SubSeq(t1, 3, Len(t1)) ELSE t1
        hasHost == Len(t2) >= 2 /\ t2[1] = "//"
        t3 == IF hasHost THEN SubSeq(t2, 3, Len(t2)) ELSE t2
        hasQuery == Len(t3) >= 2 /\ t3[Len(t3) - 1] = "?"
        t4 == IF hasQuery THEN SubSeq(t3, 1, Len(t3) - 2) ELSE t3
        isRootless == t4 # <<>> /\ t4[1] # "/"
    IN [scheme |-> IF hasScheme THEN t1[1] ELSE "",
        host |-> IF hasHost THEN t2[2] ELSE "",
        path |-> ParsePath(IF isRootless THEN <<"/">> \o t4 ELSE t4),
        query |-> IF hasQuery THEN t3[Len(t3)] ELSE "",
        frag |-> IF hasFrag THEN t[Len(t)] ELSE "",
        rootless |-> isRootless]

\* url.URL.ResolveReference for a reference without a scheme
ResolveReference(base, ref) ==
    IF ref.host # ""
    THEN [ref EXCEPT !.scheme = base.scheme]
    ELSE IF ref.path = <<>>
    THEN [base EXCEPT !.query = IF ref.query # "" THEN ref.query ELSE base.query,
                      !.frag = ref.frag]
    ELSE [scheme |-> base.scheme, host |-> base.host,
          path |-> IF ref.rootless /\ base.path # <<>>
                   THEN SubSeq(base.path, 1, Len(base.path) - 1) \o ref.path
                   ELSE ref.path,
          query |-> ref.query, frag |-> ref.frag,
          rootless |-> ref.rootless /\ base.path = <<>> /\ base.host = ""]

\* ------------------------------------------------------------------------
\* Page: normalizeURL and uniqueURLs
\* ------------------------------------------------------------------------
\* the text of an href before the first "#"
RECURSIVE BeforeHash(_)
BeforeHash(t) ==
    IF t = <<>> \/ Head(t) = "#" THEN <<>>
    ELSE <<Head(t)>> \o BeforeHash(Tail(t))

\* normalizeURL as it would be without the removal of the fragment
normalizeURLKeepFragment(pageURL, rawURL) ==
    IF rawURL = <<>> \/ (Len(rawURL) >= 2 /\ rawURL[1] = "javascript" /\ rawURL[2] = ":")
    THEN NoURL
    ELSE LET parsed == ParseURL(rawURL)
             abs == IF parsed.scheme = "" THEN ResolveReference(pageURL, parsed)
                    ELSE parsed
         IN IF abs.scheme = "" THEN [abs EXCEPT !.scheme = "https"] ELSE abs

\* Page.normalizeURL: NoURL stands for nil
normalizeURL(pageURL, rawURL) ==
    LET raw == BeforeHash(rawURL) IN
    IF raw = <<>> \/ (Len(raw) >= 2 /\ raw[1] = "javascript" /\ raw[2] = ":")
    THEN NoURL
    ELSE LET parsed == ParseURL(raw)
             abs == IF parsed.scheme = "" THEN ResolveReference(pageURL, parsed)
                    ELSE parsed
         IN IF abs.scheme = "" THEN [abs EXCEPT !.scheme = "https"] ELSE abs

RECURSIVE uniqueFrom(_, _)
uniqueFrom(urls, seenKeys) ==
    IF urls = <<>> THEN <<>>
    ELSE IF String(Head(urls)) \in seenKeys
         THEN uniqueFrom(Tail(urls), seenKeys)
         ELSE <<Head(urls)>> \o uniqueFrom(Tail(urls), seenKeys \cup {String(Head(urls))})

uniqueURLs(urls) == uniqueFrom(urls, {})

\* Page.parseHTML on a document with the given hrefs: the links that
\* normalizeURL does not drop, in document order
RECURSIVE normalizeAll(_, _)
normalizeAll(pageURL, hrefs) ==
    IF hrefs = <<>> THEN <<>>
    ELSE LET link == normalizeURL(pageURL, Head(hrefs)) IN
         (IF link = NoURL THEN <<>> ELSE <<link>>) \o normalizeAll(pageURL, Tail(hrefs))

\* ------------------------------------------------------------------------
\* The sites crawled: base URL, documents served and filter patterns
\* ------------------------------------------------------------------------
Ex(p) == MkURL("https", "example.com", p, "")
Root == Ex(<<Seg("")>>)
PageA == Ex(<<Seg("a")>>)
PageB == Ex(<<Seg("b")>>)
PageC == Ex(<<Seg("c")>>)
PageD == Ex(<<Seg("d")>>)
AdminUsers == Ex(<<Seg("admin"), Seg("users")>>)
LogoPNG == Ex(<<File("logo", ".PNG")>>)
OtherC == MkURL("https", "other.com", <<Seg("c")>>, "")
FtpF == MkURL("ftp", "example.com", <<Seg("f")>>, "")
DocsRoot == Ex(<<Seg("docs"), Seg("")>>)
DocsX == Ex(<<Seg("docs"), Seg("x")>>)
PageAQ1 == MkURL("https", "example.com", <<Seg("a")>>, "x=1")
PageAQ2 == MkURL("https", "example.com", <<Seg("a")>>, "x=2")
\* the base URL that url.Parse makes of the argument "example.com"
BareName == [MkURL("", "", <<Seg("example.com")>>, "") EXCEPT !.rootless = TRUE]

\* every URL that a document or a redirect of some site names
Pages == {Root, PageA, PageB, PageC, PageD, AdminUsers, LogoPNG, OtherC, FtpF,
          DocsRoot, DocsX, PageAQ1, PageAQ2, BareName}

\* A pattern [dir |-> s] stands for the regular expression "/s/.*";
\* BadPattern stands for "(", which regexp.Compile rejects
AdminPattern == [dir |-> "admin"]
DocsPattern == [dir |-> "docs"]
BadPattern == [dir |-> "("]

Sites == {"race", "filters", "docs", "links", "redir", "query", "bare"}

BaseURLOf(site) ==
    CASE site = "docs" -> DocsRoot
      [] site = "bare" -> BareName
      [] OTHER -> Root

ExcludeOf(site) ==
    CASE site = "filters" -> <<AdminPattern>>
      [] site = "badexclude" -> <<AdminPattern, BadPattern>>
      [] OTHER -> <<>>

IncludeOf(site) ==
    CASE site = "docs" -> <<DocsPattern>>
      [] site = "badinclude" -> <<BadPattern>>
      [] OTHER -> <<>>

\* The href attributes of the anchors of the document served at u, in
\* document order
HrefsOf(site, u) ==
    CASE site = "race" /\ u = Root -> <<String(PageA), <<"/", "b", "">>>>
      [] site = "race" /\ u = PageA -> <<<<"/", "c", "">>>>
      [] site = "race" /\ u = PageC -> <<<<"d", "">>, String(PageC)>>
      [] site = "race" /\ u = PageB -> <<String(PageD), <<"/", "", "">>>>
      [] site = "filters" /\ u = Root ->
            <<String(PageA), <<"/", "admin", "", "/", "users", "">>, String(LogoPNG),
              String(OtherC), String(FtpF), <<"/", "a", "", "#", "top">>>>
      [] site = "filters" /\ u = PageA ->
            <<String(AdminUsers), <<"b", "">>, String(Root)>>
      [] site = "docs" /\ u = DocsRoot -> <<<<"x", "">>, <<"/", "a", "">>>>
      [] site = "docs" /\ u = DocsX -> <<String(DocsRoot), <<"#", "top">>, String(DocsX)>>
      [] site = "links" /\ u = Root ->
            <<<<"/", "a", "">>, String(PageB), String(OtherC),
              <<"/", "a", "", "#", "frag">>>>
      [] site = "links" /\ u = PageA ->
            <<<<"#", "top">>, <<"javascript", ":", "void(0)", "">>, <<"b", "">>>>
      [] site = "redir" /\ u = Root -> <<<<"/", "a", "">>, <<"/", "b", "">>>>
      [] site = "redir" /\ u = OtherC -> <<<<"/", "d", "">>>>
      [] site = "query" /\ u = Root ->
            <<<<"/", "a", "", "?", "x=1">>, <<"/", "a", "", "?", "x=2">>>>
      [] OTHER -> <<>>

\* The Location the server answers a GET of u with (NoURL: it answers 200)
RedirectOf(site, u) ==
    CASE site = "redir" /\ u = PageA -> OtherC
      [] site = "redir" /\ u = PageB -> PageB
      [] OTHER -> NoURL

\* The links of the page at u when the document of u itself is served
AnchorsOf(site, u) == normalizeAll(u, HrefsOf(site, u))

\* ------------------------------------------------------------------------
\* Configuration (crawler.Config and the generate command's flags), fixed
\* for a crawl
\* ------------------------------------------------------------------------
MinRequestTimeout == 1         \* seconds
DefaultRequestTimeout == 10    \* seconds
MaxRedirects == 10

DefaultUserAgent == "Mapper/1.0 (+https://github.com/ncecere/mapper)"

\* The configurations Validate and NewURLValidator accept
GoodConfigs ==
    {c \in [site : Sites, MaxDepth : 0..MaxDepthBound,
            MaxConcurrent : 1..MaxWorkers, RateLimit : {0, 1},
            hasBaseURL : {TRUE}, RequestTimeout : {DefaultRequestTimeout},
            UserAgent : {DefaultUserAgent},
            FollowRedirects : BOOLEAN, StripQueryParams : BOOLEAN] :
        /\ (c.site # "redir" => c.FollowRedirects)
        /\ (c.site # "query" => c.StripQueryParams)}

PlainConfig ==
    [site |-> "filters", MaxDepth |-> 1, MaxConcurrent |-> 1, RateLimit |-> 0,
     hasBaseURL |-> TRUE, RequestTimeout |-> DefaultRequestTimeout,
     UserAgent |-> DefaultUserAgent, FollowRedirects |-> TRUE,
     StripQueryParams |-> TRUE]

\* Configurations with one field at, or one step beyond, what Validate allows
EdgeConfigs ==
    {[PlainConfig EXCEPT !.hasBaseURL = FALSE],
     [PlainConfig EXCEPT !.MaxDepth = -1],
     [PlainConfig EXCEPT !.MaxConcurrent = 0],
     [PlainConfig EXCEPT !.RequestTimeout = MinRequestTimeout - 1],
     [PlainConfig EXCEPT !.RequestTimeout = MinRequestTimeout],
     [PlainConfig EXCEPT !.RateLimit = -1],
     [PlainConfig EXCEPT !.UserAgent = ""],
     [PlainConfig EXCEPT !.site = "badexclude"],
     [PlainConfig EXCEPT !.site = "badinclude"]}

Configs == GoodConfigs \cup EdgeConfigs

\* Config.Validate: the error, or "" for nil
Validate(c) ==
    IF ~c.hasBaseURL THEN "base URL is required"
    ELSE IF c.MaxDepth < 0 THEN "max depth must be non-negative"
    ELSE IF c.MaxConcurrent < 1 THEN "max concurrent must be at least 1"
    ELSE IF c.RequestTimeout < MinRequestTimeout
    THEN "request timeout must be at least 1 second"
    ELSE IF c.RateLimit < 0 THEN "rate limit must be non-negative"
    ELSE IF c.UserAgent = "" THEN "user agent is required"
    ELSE ""

\* regexp.Compile succeeds
Compiles(pattern) == pattern.dir \notin {"(", "[", "*"}

\* NewURLValidator: the error, or "" for nil
NewURLValidator(site) ==
    IF \E i \in 1..Len(ExcludeOf(site)) : ~Compiles(ExcludeOf(site)[i])
    THEN "error parsing regexp"
    ELSE IF \E i \in 1..Len(IncludeOf(site)) : ~Compiles(IncludeOf(site)[i])
    THEN "error parsing regexp"
    ELSE ""

\* ------------------------------------------------------------------------
\* URLValidator
\* ------------------------------------------------------------------------
nonContentExts ==
    {".jpg", ".jpeg", ".png", ".gif", ".ico", ".css", ".js",
     ".pdf", ".doc", ".docx", ".ppt", ".pptx", ".xls", ".xlsx",
     ".zip", ".tar", ".gz", ".rar", ".exe", ".mp3", ".mp4",
     ".avi", ".mov", ".wmv", ".flv", ".svg", ".woff", ".woff2",
     ".ttf", ".eot"}

\* strings.ToLower on the extensions the sites use
ToLower(e) ==
    CASE e = ".PNG" -> ".png"
      [] e = ".JPG" -> ".jpg"
      [] e = ".Pdf" -> ".pdf"
      [] OTHER -> e

\* isNonContentFile as it would be without strings.ToLower
isNonContentFileCaseSensitive(path) ==
    /\ path # <<>>
    /\ path[Len(path)].ext \in nonContentExts

isNonContentFile(path) ==
    /\ path # <<>>
    /\ ToLower(path[Len(path)].ext) \in nonContentExts

\* regexp.MatchString of the pattern "/dir/.*" on u.String(): the string
\* holds "/dir/", i.e. the path has the segment dir followed by another one
MatchString(pattern, u) ==
    \E i \in 1..(Len(u.path) - 1) :
        u.path[i].name = pattern.dir /\ u.path[i].ext = ""

IsValid(site, u) ==
    /\ String(u) # <<>>
    /\ u.scheme \in {"http", "https"}
    /\ u.host = BaseURLOf(site).host
    /\ ~isNonContentFile(u.path)
    /\ \A i \in 1..Len(ExcludeOf(site)) : ~MatchString(ExcludeOf(site)[i], u)
    /\ \/ Len(IncludeOf(site)) = 0
       \/ \E i \in 1..Len(IncludeOf(site)) : MatchString(IncludeOf(site)[i], u)

\* ------------------------------------------------------------------------
\* State
\* ------------------------------------------------------------------------
VARIABLES
    cfg,            \* the Config of the crawl
    crawler,        \* outcome of NewCrawler: "none" before the call, "ok", "error"
    requests,       \* history: the HTTP requests sent, as [url, host, userAgent]
    urlset,         \* sitemap.Builder.urlset.URLs: the loc of each entry, in order
    started,        \* Crawler.Start has run
    queue,          \* URLQueue.queue: sequence of [url, depth]
    seen,           \* URLQueue.seen: set of URL strings
    pc,             \* position of each worker goroutine
    item,           \* the QueueItem a worker holds
    pageErr,        \* err of page.Process for the item a worker holds
    pageLinks,      \* page.Links for the item a worker holds
    stats,          \* Crawler.stats: processed, errors
    results,        \* the Results received from the results channel, in order
    resultsClosed,  \* close(c.results) has run
    doneClosed,     \* close(c.done) has run
    cancelled,      \* ctx.Done() is closed
    enqLog,         \* history: every [url string, depth] appended to the queue, in order
    fetchLog,       \* history: every URL string a fetch was started for, in order
    anyFailed       \* history: some page.Process returned an error

vars == <<cfg, crawler, requests, urlset, started, queue, seen, pc, item, pageErr, pageLinks, stats,
          results, resultsClosed, doneClosed, cancelled, enqLog, fetchLog, anyFailed>>

Workers == 1..cfg.MaxConcurrent

NoItem == [url |-> NoURL, depth |-> -1]

\* ------------------------------------------------------------------------
\* URLQueue
\* ------------------------------------------------------------------------
\* Push as it would be without the "has been seen" test
RECURSIVE PushLoopNoSeenTest(_, _, _, _, _, _)
PushLoopNoSeenTest(site, urls, depth, q, s, log) ==
    IF urls = <<>> THEN [queue |-> q, seen |-> s, log |-> log]
    ELSE LET u == Head(urls) IN
         IF u.host # BaseURLOf(site).host
         THEN PushLoopNoSeenTest(site, Tail(urls), depth, q, s, log)
         ELSE PushLoopNoSeenTest(site, Tail(urls), depth,
                                 Append(q, [url |-> u, depth |-> depth]),
                                 s \cup {String(u)},
                                 Append(log, [url |-> String(u), depth |-> depth]))

\* Push as it would be if it put each URL at the front of the queue
RECURSIVE PushLoopPrepend(_, _, _, _, _, _)
PushLoopPrepend(site, urls, depth, q, s, log) ==
    IF urls = <<>> THEN [queue |-> q, seen |-> s, log |-> log]
    ELSE LET u == Head(urls) IN
         IF String(u) \in s
         THEN PushLoopPrepend(site, Tail(urls), depth, q, s, log)
         ELSE IF u.host # BaseURLOf(site).host
         THEN PushLoopPrepend(site, Tail(urls), depth, q, s, log)
         ELSE PushLoopPrepend(site, Tail(urls), depth,
                              <<[url |-> u, depth |-> depth]>> \o q,
                              s \cup {String(u)},
                              Append(log, [url |-> String(u), depth |-> depth]))

\* The queue, seen-set and log after Push(urls, depth) on (q, s, log)
RECURSIVE PushLoop(_, _, _, _, _, _)
PushLoop(site, urls, depth, q, s, log) ==
    IF urls = <<>> THEN [queue |-> q, seen |-> s, log |-> log]
    ELSE LET u == Head(urls) IN
         IF String(u) \in s
         THEN PushLoop(site, Tail(urls), depth, q, s, log)
         ELSE IF u.host # BaseURLOf(site).host
         THEN PushLoop(site, Tail(urls), depth, q, s, log)
         ELSE PushLoop(site, Tail(urls), depth,
                       Append(q, [url |-> u, depth |-> depth]),
                       s \cup {String(u)},
                       Append(log, [url |-> String(u), depth |-> depth]))

Push(urls, depth) ==
    LET r == PushLoop(cfg.site, urls, depth, queue, seen, enqLog) IN
    /\ queue' = r.queue
    /\ seen' = r.seen
    /\ enqLog' = r.log

\* ------------------------------------------------------------------------
\* Crawler
\* ------------------------------------------------------------------------
Init ==
    /\ cfg \in Configs
    /\ crawler = "none"
    /\ requests = {}
    /\ urlset = <<>>
    /\ started = FALSE
    /\ queue = <<>>
    /\ seen = {}
    /\ pc = [w \in Workers |-> "NotStarted"]
    /\ item = [w \in Workers |-> NoItem]
    /\ pageErr = [w \in Workers |-> FALSE]
    /\ pageLinks = [w \in Workers |-> <<>>]
    /\ stats = [processed |-> 0, errors |-> 0]
    /\ results = <<>>
    /\ resultsClosed = FALSE
    /\ doneClosed = FALSE
    /\ cancelled = FALSE
    /\ enqLog = <<>>
    /\ fetchLog = <<>>
    /\ anyFailed = FALSE

\* NewCrawler as it would be if the error of config.Validate were dropped
NewCrawlerNoValidate ==
    /\ crawler = "none"
    /\ crawler' = IF NewURLValidator(cfg.site) # "" THEN "error" ELSE "ok"
    /\ UNCHANGED <<cfg, requests, urlset, started, queue, seen, pc, item, pageErr,
                   pageLinks, stats, results, resultsClosed, doneClosed, cancelled,
                   enqLog, fetchLog, anyFailed>>

\* NewCrawler: config.Validate, then NewURLValidator compiles the patterns
NewCrawler ==
    /\ crawler = "none"
    /\ crawler' = IF Validate(cfg) # "" THEN "error"
                  ELSE IF NewURLValidator(cfg.site) # "" THEN "error"
                  ELSE "ok"
    /\ UNCHANGED <<cfg, requests, urlset, started, queue, seen, pc, item, pageErr,
                   pageLinks, stats, results, resultsClosed, doneClosed, cancelled,
                   enqLog, fetchLog, anyFailed>>

\* Start as it would be if it launched one goroutine more than MaxConcurrent
StartOneMoreWorker ==
    /\ crawler = "ok"
    /\ ~started
    /\ started' = TRUE
    /\ Push(<<BaseURLOf(cfg.site)>>, 0)
    /\ pc' = [w \in 1..(cfg.MaxConcurrent + 1) |-> "Idle"]
    /\ UNCHANGED <<cfg, crawler, requests, urlset, item, pageErr, pageLinks, stats, results, resultsClosed,
                   doneClosed, cancelled, fetchLog, anyFailed>>

\* Crawler.Start: push the base URL at depth 0 and start the workers
Start ==
    /\ crawler = "ok"
    /\ ~started
    /\ started' = TRUE
    /\ Push(<<BaseURLOf(cfg.site)>>, 0)
    /\ pc' = [w \in Workers |-> "Idle"]
    /\ UNCHANGED <<cfg, crawler, requests, urlset, item, pageErr, pageLinks, stats, results, resultsClosed,
                   doneClosed, cancelled, fetchLog, anyFailed>>

\* The context is cancelled (interrupt signal, or the caller's cancel)
Cancel ==
    /\ ~cancelled
    /\ cancelled' = TRUE
    /\ UNCHANGED <<cfg, crawler, requests, urlset, started, queue, seen, pc, item, pageErr, pageLinks, stats,
                   results, resultsClosed, doneClosed, enqLog, fetchLog, anyFailed>>

\* WorkerSelect as it would be without the case <-ctx.Done() of the select
WorkerSelectIgnoreCancel(w) ==
    /\ pc[w] = "Idle"
    /\ pc' = [pc EXCEPT ![w] = "Taking"]
    /\ UNCHANGED <<cfg, crawler, requests, urlset, started, queue, seen, item, pageErr, pageLinks,
                   stats, results, resultsClosed, doneClosed, cancelled, enqLog, fetchLog,
                   anyFailed>>

\* worker, top of the loop: the select returns when ctx.Done() is closed
\* and takes its default case otherwise
WorkerSelect(w) ==
    /\ pc[w] = "Idle"
    /\ pc' = [pc EXCEPT ![w] = IF cancelled THEN "Stopped" ELSE "Taking"]
    /\ UNCHANGED <<cfg, crawler, requests, urlset, started, queue, seen, item, pageErr, pageLinks,
                   stats, results, resultsClosed, doneClosed, cancelled, enqLog, fetchLog,
                   anyFailed>>

\* WorkerTake as it would be if an empty queue made the worker poll again
WorkerTakeSpin(w) ==
    /\ pc[w] = "Taking"
    /\ IF Len(queue) = 0
       THEN /\ pc' = [pc EXCEPT ![w] = "Idle"]
            /\ UNCHANGED <<queue, item, fetchLog>>
       ELSE LET it == Head(queue) IN
            /\ queue' = Tail(queue)
            /\ IF ~IsValid(cfg.site, it.url)
               THEN /\ pc' = [pc EXCEPT ![w] = "Idle"]
                    /\ UNCHANGED <<item, fetchLog>>
               ELSE IF it.depth > cfg.MaxDepth
               THEN /\ pc' = [pc EXCEPT ![w] = "Idle"]
                    /\ UNCHANGED <<item, fetchLog>>
               ELSE /\ pc' = [pc EXCEPT ![w] = "Fetching"]
                    /\ item' = [item EXCEPT ![w] = it]
                    /\ fetchLog' = Append(fetchLog, String(it.url))
    /\ UNCHANGED <<cfg, crawler, requests, urlset, started, seen, pageErr, pageLinks, stats, results,
                   resultsClosed, doneClosed, cancelled, enqLog, anyFailed>>

\* WorkerTake as it would be without the "beyond max depth" skip
WorkerTakeNoDepthSkip(w) ==
    /\ pc[w] = "Taking"
    /\ IF Len(queue) = 0
       THEN /\ pc' = [pc EXCEPT ![w] = "Stopped"]
            /\ UNCHANGED <<queue, item, fetchLog>>
       ELSE LET it == Head(queue) IN
            /\ queue' = Tail(queue)
            /\ IF ~IsValid(cfg.site, it.url)
               THEN /\ pc' = [pc EXCEPT ![w] = "Idle"]
                    /\ UNCHANGED <<item, fetchLog>>
               ELSE /\ pc' = [pc EXCEPT ![w] = "Fetching"]
                    /\ item' = [item EXCEPT ![w] = it]
                    /\ fetchLog' = Append(fetchLog, String(it.url))
    /\ UNCHANGED <<cfg, crawler, requests, urlset, started, seen, pageErr, pageLinks, stats, results,
                   resultsClosed, doneClosed, cancelled, enqLog, anyFailed>>

\* WorkerTake as it would be if a skip ended the worker (return for continue)
WorkerTakeReturnOnSkip(w) ==
    /\ pc[w] = "Taking"
    /\ IF Len(queue) = 0
       THEN /\ pc' = [pc EXCEPT ![w] = "Stopped"]
            /\ UNCHANGED <<queue, item, fetchLog>>
       ELSE LET it == Head(queue) IN
            /\ queue' = Tail(queue)
            /\ IF ~IsValid(cfg.site, it.url)
               THEN /\ pc' = [pc EXCEPT ![w] = "Stopped"]
                    /\ UNCHANGED <<item, fetchLog>>
               ELSE IF it.depth > cfg.MaxDepth
               THEN /\ pc' = [pc EXCEPT ![w] = "Stopped"]
                    /\ UNCHANGED <<item, fetchLog>>
               ELSE /\ pc' = [pc EXCEPT ![w] = "Fetching"]
                    /\ item' = [item EXCEPT ![w] = it]
                    /\ fetchLog' = Append(fetchLog, String(it.url))
    /\ UNCHANGED <<cfg, crawler, requests, urlset, started, seen, pageErr, pageLinks, stats, results,
                   resultsClosed, doneClosed, cancelled, enqLog, anyFailed>>

\* worker, default case of the select: Pop and the two skips
WorkerTake(w) ==
    /\ pc[w] = "Taking"
    /\ IF Len(queue) = 0
       THEN /\ pc' = [pc EXCEPT ![w] = "Stopped"]
            /\ UNCHANGED <<queue, item, fetchLog>>
       ELSE LET it == Head(queue) IN
            /\ queue' = Tail(queue)
            /\ IF ~IsValid(cfg.site, it.url)
               THEN /\ pc' = [pc EXCEPT ![w] = "Idle"]
                    /\ UNCHANGED <<item, fetchLog>>
               ELSE IF it.depth > cfg.MaxDepth
               THEN /\ pc' = [pc EXCEPT ![w] = "Idle"]
                    /\ UNCHANGED <<item, fetchLog>>
               ELSE /\ pc' = [pc EXCEPT ![w] = "Fetching"]
                    /\ item' = [item EXCEPT ![w] = it]
                    /\ fetchLog' = Append(fetchLog, String(it.url))
    /\ UNCHANGED <<cfg, crawler, requests, urlset, started, seen, pageErr, pageLinks, stats, results,
                   resultsClosed, doneClosed, cancelled, enqLog, anyFailed>>

\* What net/http sends when the request sets no User-Agent header
GoDefaultUserAgent == "Go-http-client/1.1"

Request(u) == [url |-> String(u), host |-> u.host, userAgent |-> GoDefaultUserAgent]

\* client.Do: the requests sent (sent holds those already made), the URL
\* whose document is returned and whether the response is not a 200 or the
\* client gave up; CheckRedirect sees the n requests already made
RECURSIVE Do(_, _, _, _, _)
Do(site, u, n, follow, sent) ==
    IF RedirectOf(site, u) = NoURL
    THEN [reqs |-> sent \cup {Request(u)}, final |-> u, err |-> FALSE]
    ELSE IF ~follow \/ n >= MaxRedirects
    THEN [reqs |-> sent \cup {Request(u)}, final |-> u, err |-> TRUE]
    ELSE Do(site, RedirectOf(site, u), n + 1, follow, sent \cup {Request(u)})

\* Page.Process: the error, Page.Links and the requests sent; netErr is a
\* failure of the first request
Process(site, pageURL, follow, netErr) ==
    IF netErr THEN [err |-> TRUE, links |-> <<>>, reqs |-> {Request(pageURL)}]
    ELSE LET r == Do(site, pageURL, 1, follow, {}) IN
         [err |-> r.err,
          links |-> IF r.err THEN <<>>
                    ELSE uniqueURLs(normalizeAll(pageURL, HrefsOf(site, r.final))),
          reqs |-> r.reqs]

\* Page.Process of each page of each site when the first request is answered
Responses ==
    [site \in Sites |-> [u \in Pages |-> [follow \in BOOLEAN |->
        Process(site, u, follow, FALSE)]]]

\* WorkerFetch as it would be if an error of page.Process ended the worker
WorkerFetchReturnOnError(w) ==
    /\ pc[w] = "Fetching"
    /\ \E netErr \in BOOLEAN :
       \E r \in {IF netErr THEN Process(cfg.site, item[w].url, cfg.FollowRedirects, TRUE)
                ELSE Responses[cfg.site][item[w].url][cfg.FollowRedirects]} :
        /\ pageErr' = [pageErr EXCEPT ![w] = r.err]
        /\ pageLinks' = [pageLinks EXCEPT ![w] = r.links]
        /\ requests' = requests \cup r.reqs
        /\ stats' = [processed |-> stats.processed + 1,
                     errors |-> IF r.err THEN stats.errors + 1 ELSE stats.errors]
        /\ anyFailed' = (anyFailed \/ r.err)
        /\ pc' = [pc EXCEPT ![w] = IF r.err THEN "Stopped" ELSE "Emitting"]
    /\ UNCHANGED <<cfg, crawler, urlset, started, queue, seen, item, results, resultsClosed,
                   doneClosed, cancelled, enqLog, fetchLog>>

\* worker: page.Process returns (err or the page's links), then the
\* statistics are updated
WorkerFetch(w) ==
    /\ pc[w] = "Fetching"
    /\ \E netErr \in BOOLEAN :
       \E r \in {IF netErr THEN Process(cfg.site, item[w].url, cfg.FollowRedirects, TRUE)
                ELSE Responses[cfg.site][item[w].url][cfg.FollowRedirects]} :
        /\ pageErr' = [pageErr EXCEPT ![w] = r.err]
        /\ pageLinks' = [pageLinks EXCEPT ![w] = r.links]
        /\ requests' = requests \cup r.reqs
        /\ stats' = [processed |-> stats.processed + 1,
                     errors |-> IF r.err THEN stats.errors + 1 ELSE stats.errors]
        /\ anyFailed' = (anyFailed \/ r.err)
    /\ pc' = [pc EXCEPT ![w] = "Emitting"]
    /\ UNCHANGED <<cfg, crawler, urlset, started, queue, seen, item, results, resultsClosed,
                   doneClosed, cancelled, enqLog, fetchLog>>

\* AddURL as it would be without the test of the host
AddURLNoHostTest(loc, baseURL, stripQueryParams) ==
    LET parsedURL == ParseURL(loc) IN
    <<String(IF stripQueryParams
             THEN [parsedURL EXCEPT !.query = ""]
             ELSE parsedURL)>>

\* sitemap.Builder.AddURL (no ExcludePaths, as runGenerate builds it): the
\* entries the call appends to the URL set
AddURL(loc, baseURL, stripQueryParams) ==
    LET parsedURL == ParseURL(loc) IN
    IF parsedURL.host # baseURL.host THEN <<>>
    ELSE <<String(IF stripQueryParams
                  THEN [parsedURL EXCEPT !.query = ""]
                  ELSE parsedURL)>>

\* AddURL of the Result of each page of each site
Entries ==
    [site \in Sites |-> [u \in Pages |-> [strip \in BOOLEAN |->
        AddURL(String(u), BaseURLOf(site), strip)]]]

\* WorkerEmit as it would be with a send that does not wait for the receiver
WorkerEmitNonBlocking(w) ==
    /\ pc[w] = "Emitting"
    /\ ~resultsClosed
    /\ pc' = [pc EXCEPT ![w] = "Admitting"]
    /\ UNCHANGED <<cfg, crawler, requests, urlset, started, queue, seen, item, pageErr, pageLinks, stats,
                   results, resultsClosed, doneClosed, cancelled, enqLog, fetchLog, anyFailed>>

\* WorkerEmit as it would be if the send were in a select with ctx.Done()
WorkerEmitCancellable(w) ==
    /\ pc[w] = "Emitting"
    /\ ~resultsClosed
    /\ \/ /\ urlset' = IF pageErr[w] THEN urlset
                       ELSE urlset \o Entries[cfg.site][item[w].url][cfg.StripQueryParams]
          /\ results' = Append(results, [url |-> String(item[w].url),
                                         err |-> pageErr[w],
                                         depth |-> item[w].depth])
          /\ pc' = [pc EXCEPT ![w] = "Admitting"]
       \/ /\ cancelled
          /\ pc' = [pc EXCEPT ![w] = "Stopped"]
          /\ UNCHANGED <<urlset, results>>
    /\ UNCHANGED <<cfg, crawler, requests, started, queue, seen, item, pageErr, pageLinks, stats,
                   resultsClosed, doneClosed, cancelled, enqLog, fetchLog, anyFailed>>

\* worker: the send on the unbuffered results channel, taken by the
\* consumer's range loop, which adds the URL of a Result without error to
\* the sitemap builder
WorkerEmit(w) ==
    /\ pc[w] = "Emitting"
    /\ ~resultsClosed
    /\ urlset' = IF pageErr[w] THEN urlset
                 ELSE urlset \o Entries[cfg.site][item[w].url][cfg.StripQueryParams]
    /\ results' = Append(results, [url |-> String(item[w].url),
                                   err |-> pageErr[w],
                                   depth |-> item[w].depth])
    /\ pc' = [pc EXCEPT ![w] = "Admitting"]
    /\ UNCHANGED <<cfg, crawler, requests, started, queue, seen, item, pageErr, pageLinks, stats,
                   resultsClosed, doneClosed, cancelled, enqLog, fetchLog, anyFailed>>

\* WorkerAdmit as it would be if a page that failed were queued again
WorkerAdmitRetryOnError(w) ==
    /\ pc[w] = "Admitting"
    /\ IF ~pageErr[w]
       THEN Push(pageLinks[w], item[w].depth + 1)
       ELSE /\ queue' = Append(queue, item[w])
            /\ UNCHANGED <<seen, enqLog>>
    /\ pc' = [pc EXCEPT ![w] = IF cfg.RateLimit > 0 THEN "RateLimitWait" ELSE "Idle"]
    /\ item' = [item EXCEPT ![w] = NoItem]
    /\ pageErr' = [pageErr EXCEPT ![w] = FALSE]
    /\ pageLinks' = [pageLinks EXCEPT ![w] = <<>>]
    /\ UNCHANGED <<cfg, crawler, requests, urlset, started, stats, results, resultsClosed, doneClosed,
                   cancelled, fetchLog, anyFailed>>

\* WorkerAdmit as it would be if links were queued at their parent's depth
WorkerAdmitSameDepth(w) ==
    /\ pc[w] = "Admitting"
    /\ IF ~pageErr[w]
       THEN Push(pageLinks[w], item[w].depth)
       ELSE UNCHANGED <<queue, seen, enqLog>>
    /\ pc' = [pc EXCEPT ![w] = IF cfg.RateLimit > 0 THEN "RateLimitWait" ELSE "Idle"]
    /\ item' = [item EXCEPT ![w] = NoItem]
    /\ pageErr' = [pageErr EXCEPT ![w] = FALSE]
    /\ pageLinks' = [pageLinks EXCEPT ![w] = <<>>]
    /\ UNCHANGED <<cfg, crawler, requests, urlset, started, stats, results, resultsClosed, doneClosed,
                   cancelled, fetchLog, anyFailed>>

\* WorkerAdmit as it would be without the rate-limit sleep
WorkerAdmitNoSleep(w) ==
    /\ pc[w] = "Admitting"
    /\ IF ~pageErr[w]
       THEN Push(pageLinks[w], item[w].depth + 1)
       ELSE UNCHANGED <<queue, seen, enqLog>>
    /\ pc' = [pc EXCEPT ![w] = "Idle"]
    /\ item' = [item EXCEPT ![w] = NoItem]
    /\ pageErr' = [pageErr EXCEPT ![w] = FALSE]
    /\ pageLinks' = [pageLinks EXCEPT ![w] = <<>>]
    /\ UNCHANGED <<cfg, crawler, requests, urlset, started, stats, results, resultsClosed, doneClosed,
                   cancelled, fetchLog, anyFailed>>

\* worker: push the page's links when the page was processed without error
WorkerAdmit(w) ==
    /\ pc[w] = "Admitting"
    /\ IF ~pageErr[w]
       THEN Push(pageLinks[w], item[w].depth + 1)
       ELSE UNCHANGED <<queue, seen, enqLog>>
    /\ pc' = [pc EXCEPT ![w] = IF cfg.RateLimit > 0 THEN "RateLimitWait" ELSE "Idle"]
    /\ item' = [item EXCEPT ![w] = NoItem]
    /\ pageErr' = [pageErr EXCEPT ![w] = FALSE]
    /\ pageLinks' = [pageLinks EXCEPT ![w] = <<>>]
    /\ UNCHANGED <<cfg, crawler, requests, urlset, started, stats, results, resultsClosed, doneClosed,
                   cancelled, fetchLog, anyFailed>>

\* worker: time.Sleep(RateLimit) returns
WorkerSleep(w) ==
    /\ pc[w] = "RateLimitWait"
    /\ pc' = [pc EXCEPT ![w] = "Idle"]
    /\ UNCHANGED <<cfg, crawler, requests, urlset, started, queue, seen, item, pageErr, pageLinks, stats,
                   results, resultsClosed, doneClosed, cancelled, enqLog, fetchLog,
                   anyFailed>>

\* CloseResults as it would be if it waited for one worker only
CloseResultsAfterFirstWorker ==
    /\ started
    /\ ~resultsClosed
    /\ \E w \in Workers : pc[w] = "Stopped"
    /\ resultsClosed' = TRUE
    /\ UNCHANGED <<cfg, crawler, requests, urlset, started, queue, seen, pc, item, pageErr, pageLinks, stats,
                   results, doneClosed, cancelled, enqLog, fetchLog, anyFailed>>

\* the closing goroutine: wg.Wait() returns, close(c.results)
CloseResults ==
    /\ started
    /\ ~resultsClosed
    /\ \A w \in Workers : pc[w] = "Stopped"
    /\ resultsClosed' = TRUE
    /\ UNCHANGED <<cfg, crawler, requests, urlset, started, queue, seen, pc, item, pageErr, pageLinks, stats,
                   results, doneClosed, cancelled, enqLog, fetchLog, anyFailed>>

\* CloseDone as it would be if done were closed before the results channel
CloseDoneBeforeResults ==
    /\ started
    /\ \A w \in Workers : pc[w] = "Stopped"
    /\ ~doneClosed
    /\ doneClosed' = TRUE
    /\ UNCHANGED <<cfg, crawler, requests, urlset, started, queue, seen, pc, item, pageErr, pageLinks, stats,
                   results, resultsClosed, cancelled, enqLog, fetchLog, anyFailed>>

\* the closing goroutine: close(c.done)
CloseDone ==
    /\ resultsClosed
    /\ ~doneClosed
    /\ doneClosed' = TRUE
    /\ UNCHANGED <<cfg, crawler, requests, urlset, started, queue, seen, pc, item, pageErr, pageLinks, stats,
                   results, resultsClosed, cancelled, enqLog, fetchLog, anyFailed>>

WorkerStep(w) ==
    \/ WorkerSelect(w)
    \/ WorkerTake(w)
    \/ WorkerFetch(w)
    \/ WorkerEmit(w)
    \/ WorkerAdmit(w)
    \/ WorkerSleep(w)

Next ==
    \/ NewCrawler
    \/ Start
    \/ Cancel
    \/ \E w \in Workers : WorkerStep(w)
    \/ CloseResults
    \/ CloseDone

Spec == Init /\ [][Next]_vars

\* The Go scheduler runs every runnable goroutine, and the consumer keeps
\* receiving from the results channel
FairSpec ==
    /\ Spec
    /\ WF_vars(NewCrawler)
    /\ WF_vars(Start)
    /\ \A w \in 1..MaxWorkers : WF_vars(w \in Workers /\ WorkerStep(w))
    /\ WF_vars(CloseResults)
    /\ WF_vars(CloseDone)

\* ------------------------------------------------------------------------
\* Reference definitions used by the properties
\* ------------------------------------------------------------------------
InFlight == {"Fetching", "Emitting", "Admitting"}

Range(f) == {f[i] : i \in DOMAIN f}

ResultURLs == {results[i].url : i \in DOMAIN results}

CountResults(s) == Cardinality({i \in DOMAIN results : results[i].url = s})

\* The URLs that appear on a site
SiteURLs(site) ==
    {BaseURLOf(site)} \cup UNION {Range(AnchorsOf(site, u)) : u \in Pages}

\* The valid URLs reachable from the base URL by at most k links through
\* valid pages
RECURSIVE ReachWithin(_, _)
ReachWithin(site, k) ==
    IF k = 0 THEN {u \in {BaseURLOf(site)} : IsValid(site, u)}
    ELSE LET prev == ReachWithin(site, k - 1) IN
         prev \cup {v \in UNION {Range(AnchorsOf(site, u)) : u \in prev} :
                       IsValid(site, v)}

\* The crawl as one worker runs it when every fetch succeeds: the final
\* seen-set and the set of URL strings that got a Result
RECURSIVE SingleWorkerRun(_, _, _, _, _)
SingleWorkerRun(site, maxDepth, q, s, res) ==
    IF q = <<>> THEN [seen |-> s, results |-> res]
    ELSE LET it == Head(q) IN
         IF ~IsValid(site, it.url) \/ it.depth > maxDepth
         THEN SingleWorkerRun(site, maxDepth, Tail(q), s, res)
         ELSE LET r == PushLoop(site, uniqueURLs(AnchorsOf(site, it.url)),
                                it.depth + 1, Tail(q), s, <<>>)
              IN SingleWorkerRun(site, maxDepth, r.queue, r.seen,
                                 res \cup {String(it.url)})

SingleWorkerCrawl(site, maxDepth) ==
    LET r == PushLoop(site, <<BaseURLOf(site)>>, 0, <<>>, {}, <<>>)
    IN SingleWorkerRun(site, maxDepth, r.queue, r.seen, {})

WorkerAt(w, places) == IF w \in Workers THEN pc[w] \in places ELSE FALSE

AllStopped == \A w \in Workers : pc[w] = "Stopped"

\* ------------------------------------------------------------------------
\* Properties
\* ------------------------------------------------------------------------

\* C1: when a crawl that was not cancelled and in which every fetch
\* succeeded has closed its Result stream, every valid URL within MaxDepth
\* links of the base URL (through valid pages) has exactly one Result.
C1_Completeness ==
    (resultsClosed /\ ~cancelled /\ ~anyFailed) =>
        \A u \in ReachWithin(cfg.site, cfg.MaxDepth) : CountResults(String(u)) = 1

\* C2: without cancellation, and with a consumer that keeps receiving,
\* eventually every worker of a crawl that NewCrawler accepted has stopped
\* and the Result stream is closed.
C2_Termination == <>(cancelled \/ crawler = "error" \/ (AllStopped /\ resultsClosed))

C2_Witness == resultsClosed /\ AllStopped /\ ~cancelled /\ cfg.MaxConcurrent = 2
                  /\ Len(results) >= 3

\* C3: absent cancellation, whenever a worker stops, the queue is empty and
\* no other worker has an item in flight.
C3_NoPrematureStop ==
    [][\A w \in Workers :
          (pc[w] # "Stopped" /\ pc'[w] = "Stopped" /\ ~cancelled) =>
              /\ queue' = <<>>
              /\ \A v \in Workers \ {w} : pc[v] \notin InFlight]_vars

\* C4: a completed crawl (not cancelled, every fetch succeeding) ends with
\* the seen-set and the set of Result URLs of the crawl with one worker,
\* whatever MaxConcurrent is and however the workers interleave.
C4_ConcurrencyIndependence ==
    (resultsClosed /\ ~cancelled /\ ~anyFailed) =>
        /\ seen = SingleWorkerCrawl(cfg.site, cfg.MaxDepth).seen
        /\ ResultURLs = SingleWorkerCrawl(cfg.site, cfg.MaxDepth).results

\* C5: each URL string is appended to the queue at most once, a fetch is
\* started at most once for it, and it has at most one Result.
C5_AtMostOnce ==
    /\ \A i, j \in DOMAIN enqLog : enqLog[i].url = enqLog[j].url => i = j
    /\ \A i, j \in DOMAIN fetchLog : fetchLog[i] = fetchLog[j] => i = j
    /\ \A i, j \in DOMAIN results : results[i].url = results[j].url => i = j

\* a crawl in which Push met URLs it had already seen (the links of /a
\* name the base URL and /admin/users again)
C5_Witness ==
    /\ cfg.site = "filters"
    /\ String(PageB) \in seen
    /\ resultsClosed

\* C6: a fetch in progress, and every Result, is for an item whose depth is
\* at most MaxDepth and whose URL passes IsValid.
C6_FetchOnlyValidWithinDepth ==
    /\ \A w \in Workers :
          pc[w] \in InFlight =>
              item[w].depth <= cfg.MaxDepth /\ IsValid(cfg.site, item[w].url)
    /\ \A i \in DOMAIN fetchLog : IsValid(cfg.site, ParseURL(fetchLog[i]))
    /\ \A i \in DOMAIN results :
          /\ results[i].depth <= cfg.MaxDepth
          /\ IsValid(cfg.site, ParseURL(results[i].url))

\* a crawl that dequeued and skipped an item beyond MaxDepth (/b at depth 2)
\* and an excluded one (/admin/users)
C6_Witness ==
    /\ cfg.site = "filters"
    /\ cfg.MaxDepth = 1
    /\ String(PageB) \in seen
    /\ String(AdminUsers) \in seen
    /\ queue = <<>>
    /\ Len(results) = 2

\* C7: every item in the queue has depth at most MaxDepth, and no URL was
\* ever added to the queue or the seen-set at a depth beyond MaxDepth.
C7_DepthBoundAtAdmission ==
    /\ \A i \in DOMAIN queue : queue[i].depth <= cfg.MaxDepth
    /\ \A i \in DOMAIN enqLog : enqLog[i].depth <= cfg.MaxDepth
    /\ seen = {enqLog[i].url : i \in DOMAIN enqLog}

\* C8: every URL in the queue, and every URL string in the seen-set, passes
\* IsValid.
C8_QueueHoldsOnlyAdmissible ==
    /\ \A i \in DOMAIN queue : IsValid(cfg.site, queue[i].url)
    /\ \A s \in seen : \E u \in SiteURLs(cfg.site) : String(u) = s /\ IsValid(cfg.site, u)

\* C9: a worker that started a fetch goes on to emit exactly one Result for
\* the item, carrying the error if the fetch failed, and then continues
\* with the loop; the Results are the fetches started, less those still
\* being fetched or emitted.
C9_OneResultPerFetch ==
    /\ [][\A w \in Workers :
             /\ (pc[w] = "Fetching" /\ pc'[w] # "Fetching") =>
                    pc'[w] = "Emitting" /\ item'[w] = item[w]
             /\ (pc[w] = "Emitting" /\ pc'[w] # "Emitting") =>
                    /\ pc'[w] = "Admitting"
                    /\ results' = Append(results, [url |-> String(item[w].url),
                                                   err |-> pageErr[w],
                                                   depth |-> item[w].depth])
             /\ (pc[w] = "Admitting" /\ pc'[w] # "Admitting") =>
                    pc'[w] \in {"Idle", "RateLimitWait"}]_vars
    /\ [](Len(fetchLog) = Len(results)
             + Cardinality({w \in Workers : pc[w] \in {"Fetching", "Emitting"}}))
    /\ [](stats.processed = Len(results)
             + Cardinality({w \in Workers : pc[w] = "Emitting"}))
    /\ \A w \in 1..MaxWorkers :
          WorkerAt(w, {"Fetching"}) ~> WorkerAt(w, {"Idle", "RateLimitWait"})

\* a worker is back at the top of its loop after a failed fetch whose
\* Result is in the stream
C9_Witness ==
    \E w \in Workers :
        /\ pc[w] = "Idle"
        /\ results # <<>>
        /\ results[Len(results)].err
        /\ queue # <<>>

\* C10: in a crawl that is not cancelled, once the Result stream is closed
\* the queue is empty, no item is in flight and every worker has stopped.
C10_CompletionCondition ==
    (resultsClosed /\ ~cancelled) =>
        /\ queue = <<>>
        /\ \A w \in Workers : pc[w] = "Stopped" /\ item[w] = NoItem

C10_Witness ==
    /\ resultsClosed
    /\ ~cancelled
    /\ cfg.MaxConcurrent = 2
    /\ Len(results) >= 4

\* URLQueue.GetProcessedURLs (and Crawler.GetProcessedURLs, which returns it)
GetProcessedURLs == {ParseURL(urlStr) : urlStr \in seen}

\* the URL strings appended to the queue at the given depth
AdmittedAt(depth) == {enqLog[i].url : i \in {j \in DOMAIN enqLog : enqLog[j].depth = depth}}

\* the Result of u without error is in the stream and its worker has pushed
\* the page's links
Admitted(u) ==
    /\ \E i \in DOMAIN results : results[i].url = String(u) /\ ~results[i].err
    /\ \A w \in Workers : item[w].url # u

\* what the claims call an invalid configuration
BadConfig(c) ==
    \/ ~c.hasBaseURL
    \/ c.MaxDepth < 0
    \/ c.MaxConcurrent < 1
    \/ c.RequestTimeout < MinRequestTimeout
    \/ c.RateLimit < 0
    \/ c.UserAgent = ""
    \/ BadPattern \in Range(ExcludeOf(c.site)) \cup Range(IncludeOf(c.site))

\* C11: once the context is cancelled in a started crawl, with a consumer
\* that keeps receiving, every worker eventually stops and the Result stream
\* is closed; a worker at the top of its loop then stops without taking
\* from the queue, and the Results already delivered stay in the stream.
C11_Cancellation ==
    /\ (cancelled /\ started) ~> (AllStopped /\ resultsClosed)
    /\ [][\A w \in Workers :
             (cancelled /\ pc[w] = "Idle" /\ pc'[w] # "Idle") =>
                 pc'[w] = "Stopped" /\ queue' = queue]_vars
    /\ [][/\ Len(results') >= Len(results)
          /\ SubSeq(results', 1, Len(results)) = results]_vars

\* a cancelled crawl whose stream is closed with Results delivered and
\* items left in the queue
C11_Witness ==
    /\ cancelled
    /\ resultsClosed
    /\ queue # <<>>
    /\ results # <<>>

\* C12: with MaxDepth = 0 and a valid base URL the crawl emits one Result,
\* for the base URL, and admits no link: the seen-set holds the base URL
\* only and the queue never holds anything else.
C12_DepthZeroAdmitsNothing ==
    (cfg.MaxDepth = 0 /\ IsValid(cfg.site, BaseURLOf(cfg.site))) =>
        /\ seen \subseteq {String(BaseURLOf(cfg.site))}
        /\ \A i \in DOMAIN queue : queue[i].url = BaseURLOf(cfg.site)
        /\ \A i \in DOMAIN results : results[i].url = String(BaseURLOf(cfg.site))
        /\ Len(results) <= 1

\* C13: for the base URL https://example.com/ with MaxDepth = 1 and the
\* links /a, https://example.com/b, https://other.com/c and /a#frag, the
\* URLs admitted at depth 1 are within {https://example.com/a,
\* https://example.com/b}, and are exactly these once the base page's links
\* are pushed.
C13_LinkAdmission ==
    (cfg.site = "links" /\ cfg.MaxDepth = 1) =>
        /\ AdmittedAt(1) \subseteq {String(PageA), String(PageB)}
        /\ Admitted(Root) => AdmittedAt(1) = {String(PageA), String(PageB)}

C13_Witness ==
    /\ cfg.site = "links"
    /\ cfg.MaxDepth = 1
    /\ Admitted(Root)
    /\ AdmittedAt(1) = {String(PageA), String(PageB)}

\* C14: for a configuration with no base URL, MaxDepth < 0, MaxConcurrent
\* < 1, RequestTimeout < 1s, RateLimit < 0, an empty UserAgent or a pattern
\* that does not compile, NewCrawler returns an error, and then no worker
\* is started and nothing is enqueued or fetched.
C14_ConfigErrorsFatal ==
    /\ (BadConfig(cfg) /\ crawler # "none") => crawler = "error"
    /\ crawler = "error" =>
          /\ ~started
          /\ \A w \in Workers : pc[w] = "NotStarted"
          /\ queue = <<>> /\ seen = {} /\ enqLog = <<>>
          /\ fetchLog = <<>> /\ requests = {} /\ results = <<>>

\* NewCrawler has returned an error for a pattern that does not compile
C14_Witness ==
    /\ crawler = "error"
    /\ cfg.site = "badinclude"

\* C15: a base URL without a scheme or without a host is rejected by
\* NewCrawler, so the crawl is never started.
C15_RelativeSeedRejected ==
    (cfg.hasBaseURL /\ (BaseURLOf(cfg.site).scheme = "" \/ BaseURLOf(cfg.site).host = "")) =>
        crawler # "ok" /\ ~started

\* C16: every HTTP request, redirects included, goes to the base URL's host.
C16_RequestsStayOnBaseHost ==
    \A r \in requests : r.host = BaseURLOf(cfg.site).host

\* C17: once the Result stream is consumed, no two entries of the sitemap
\* have the same loc.
C17_SitemapDeduplicated ==
    resultsClosed => \A i, j \in DOMAIN urlset : urlset[i] = urlset[j] => i = j

\* C18: when a page's Result is received, the page's valid links within
\* MaxDepth are already in the seen-set.
C18_LinksAdmittedBeforeEmit ==
    [][\A w \in Workers :
          (pc[w] = "Emitting" /\ pc'[w] # "Emitting" /\ item[w].depth + 1 <= cfg.MaxDepth) =>
              \A i \in DOMAIN pageLinks[w] :
                  IsValid(cfg.site, pageLinks[w][i]) => String(pageLinks[w][i]) \in seen']_vars

\* C19: every HTTP request carries the configured UserAgent.
C19_UserAgentSent ==
    \A r \in requests : r.userAgent = cfg.UserAgent

\* C20: after a crawl of a valid base URL that was not cancelled,
\* GetProcessedURLs is the set of URLs that have a Result without error.
C20_ProcessedURLs ==
    (resultsClosed /\ ~cancelled /\ IsValid(cfg.site, BaseURLOf(cfg.site))) =>
        {String(u) : u \in GetProcessedURLs} =
            {results[i].url : i \in {j \in DOMAIN results : ~results[j].err}}

\* URLs the validator is asked about besides those of the sites: a
\* subdomain of the base host, the base host with a port, and plain http
SubdomainA == MkURL("https", "www.example.com", <<Seg("a")>>, "")
PortA == MkURL("https", "example.com:8080", <<Seg("a")>>, "")
HttpA == MkURL("http", "example.com", <<Seg("a")>>, "")
UpperJPG == Ex(<<Seg("img"), File("photo", ".JPG")>>)
Probes == Pages \cup {NoURL, SubdomainA, PortA, HttpA, UpperJPG}

\* C21: IsValid(u) is true exactly when the scheme is http or https, the
\* host is textually the base host, the lowercased path does not end in a
\* non-content extension, no exclude pattern matches and, when include
\* patterns are configured, one of them matches.
C21_AdmissionPolicy ==
    crawler = "ok" =>
        \A u \in Probes :
            IsValid(cfg.site, u) <=>
                /\ u.scheme = "http" \/ u.scheme = "https"
                /\ u.host = BaseURLOf(cfg.site).host
                /\ \/ u.path = <<>>
                   \/ ToLower(u.path[Len(u.path)].ext) \notin nonContentExts
                /\ ~\E i \in DOMAIN ExcludeOf(cfg.site) : MatchString(ExcludeOf(cfg.site)[i], u)
                /\ \/ IncludeOf(cfg.site) = <<>>
                   \/ \E i \in DOMAIN IncludeOf(cfg.site) :
                         MatchString(IncludeOf(cfg.site)[i], u)

\* the worker has dequeued /admin/users and /logo.PNG on the site with an
\* exclude pattern and IsValid has rejected them
C21_Witness ==
    /\ cfg.site = "filters"
    /\ {String(AdminUsers), String(LogoPNG)} \subseteq seen
    /\ queue = <<>>
    /\ String(AdminUsers) \notin Range(fetchLog)
    /\ String(LogoPNG) \notin Range(fetchLog)
    /\ String(PageA) \in Range(fetchLog)

\* C22: a page whose fetch failed has no links, and the step of its worker
\* that follows the Result changes neither the queue nor the seen-set.
C22_FailedPageAdmitsNothing ==
    [][\A w \in Workers :
          (pc[w] \in {"Emitting", "Admitting"} /\ pageErr[w]) =>
              /\ pageLinks[w] = <<>>
              /\ (pc[w] = "Admitting" /\ pc'[w] # "Admitting") =>
                    queue' = queue /\ seen' = seen /\ enqLog' = enqLog]_vars

\* a crawl is over in which a Result with an error was followed by others
C22_Witness ==
    /\ resultsClosed
    /\ ~cancelled
    /\ \E i \in DOMAIN results : results[i].err /\ i < Len(results)
    /\ \A w \in Workers : item[w] = NoItem

\* the item a take would drop: IsValid rejects its URL or it is beyond MaxDepth
Skipped(it) == ~IsValid(cfg.site, it.url) \/ it.depth > cfg.MaxDepth

\* C23: a take of an item that IsValid rejects or that is beyond MaxDepth
\* drops it: no fetch, no request, no Result, the counters and every worker's
\* item are unchanged, and the worker that took it is back at the top of
\* its loop.
C23_SkippedItemsAreSilent ==
    [][(queue # <<>> /\ queue' = Tail(queue) /\ Skipped(Head(queue))) =>
          /\ \E w \in Workers : pc[w] = "Taking" /\ pc' = [pc EXCEPT ![w] = "Idle"]
          /\ item' = item
          /\ fetchLog' = fetchLog
          /\ requests' = requests
          /\ results' = results
          /\ stats' = stats]_vars

\* a crawl is over in which an item beyond MaxDepth and an item that IsValid
\* rejects were dequeued, and every counted page has its Result
C23_Witness ==
    /\ resultsClosed
    /\ ~cancelled
    /\ \E i \in DOMAIN enqLog : enqLog[i].depth > cfg.MaxDepth
    /\ \E i \in DOMAIN enqLog : ~IsValid(cfg.site, ParseURL(enqLog[i].url))
    /\ stats.processed = Len(results)
    /\ Len(fetchLog) < Len(enqLog)

\* the entries one Push(urls, depth) adds when the seen-set is s: the URLs
\* of the base host not yet seen, in the order of urls
RECURSIVE FreshOf(_, _, _)
FreshOf(urls, depth, s) ==
    IF urls = <<>> THEN <<>>
    ELSE IF String(Head(urls)) \in s \/ Head(urls).host # BaseURLOf(cfg.site).host
    THEN FreshOf(Tail(urls), depth, s)
    ELSE <<[url |-> String(Head(urls)), depth |-> depth]>>
             \o FreshOf(Tail(urls), depth, s \cup {String(Head(urls))})

\* the queue is the part of the enqueue history that no take has removed
QueueIsUntakenSuffix ==
    /\ Len(queue) <= Len(enqLog)
    /\ \A i \in DOMAIN queue :
          /\ String(queue[i].url) = enqLog[Len(enqLog) - Len(queue) + i].url
          /\ queue[i].depth = enqLog[Len(enqLog) - Len(queue) + i].depth

\* C24: the queue is always the untaken rest of the enqueue history, in
\* enqueue order; a take removes exactly the head and hands it to at most
\* one worker; a Push appends its whole batch, in input order, in one step.
C24_FifoUnderConcurrency ==
    /\ []QueueIsUntakenSuffix
    /\ [][Len(queue') < Len(queue) =>
             /\ queue' = Tail(queue)
             /\ enqLog' = enqLog
             /\ Cardinality({w \in Workers : item'[w] # item[w]}) <= 1
             /\ \A w \in Workers :
                   item'[w] # item[w] => item[w] = NoItem /\ item'[w] = Head(queue)]_vars
    /\ [][enqLog' # enqLog =>
             LET added == SubSeq(enqLog', Len(enqLog) + 1, Len(enqLog')) IN
             /\ SubSeq(enqLog', 1, Len(enqLog)) = enqLog
             /\ Len(queue') = Len(queue) + Len(added)
             /\ SubSeq(queue', 1, Len(queue)) = queue
             /\ IF ~started
                THEN added = FreshOf(<<BaseURLOf(cfg.site)>>, 0, seen)
                ELSE \E w \in Workers :
                        /\ pc[w] = "Admitting" /\ ~pageErr[w]
                        /\ added = FreshOf(pageLinks[w], item[w].depth + 1, seen)]_vars

\* two workers: two items were taken and two more wait in the queue
C24_Witness ==
    /\ cfg.MaxConcurrent = 2
    /\ Len(queue) >= 2
    /\ Len(enqLog) - Len(queue) >= 2
    /\ \E w \in Workers : pc[w] \in InFlight

\* the pages that have a Result without error
FetchedPages == {ParseURL(results[i].url) : i \in {j \in DOMAIN results : ~results[j].err}}

\* the URLs at most k links from the base URL, following the links of
\* fetched pages only
RECURSIVE Level(_)
Level(k) ==
    IF k = 0 THEN {BaseURLOf(cfg.site)}
    ELSE LET prev == Level(k - 1) IN
         prev \cup UNION {Range(Responses[cfg.site][u][cfg.FollowRedirects].links) :
                             u \in prev \cap FetchedPages}

\* C25: with one worker the depths of the items are non-decreasing in
\* enqueue order, which is the order they are dequeued in, and when the
\* crawl is over the depth of every item is the least number of links that
\* lead to its URL from the base URL through fetched pages.
C25_BreadthFirstSingleWorker ==
    cfg.MaxConcurrent = 1 =>
        /\ QueueIsUntakenSuffix
        /\ \A i, j \in DOMAIN enqLog : i < j => enqLog[i].depth <= enqLog[j].depth
        /\ (resultsClosed /\ ~cancelled) =>
              \A i \in DOMAIN enqLog :
                  /\ ParseURL(enqLog[i].url) \in Level(enqLog[i].depth)
                  /\ enqLog[i].depth > 0 =>
                        ParseURL(enqLog[i].url) \notin Level(enqLog[i].depth - 1)

\* a crawl by one worker is over with items of depth 2 and four Results
C25_Witness ==
    /\ cfg.MaxConcurrent = 1
    /\ resultsClosed
    /\ ~cancelled
    /\ \E i \in DOMAIN enqLog : enqLog[i].depth = 2
    /\ Len(results) >= 4

\* C26: no step removes a URL from the seen-set, every URL in the queue is
\* in the seen-set, and no two items of the queue have the same URL string.
C26_FrontierConsistency ==
    /\ [](\A i \in DOMAIN queue : String(queue[i].url) \in seen)
    /\ [](\A i, j \in DOMAIN queue :
              String(queue[i].url) = String(queue[j].url) => i = j)
    /\ [][seen \subseteq seen']_vars

\* links were pushed while other items waited: the queue holds two items and
\* the seen-set holds more URLs than the queue
C26_Witness ==
    /\ Len(queue) >= 2
    /\ Cardinality(seen) >= Len(queue) + 2

\* the goroutines Start has launched that have not returned
Running == {w \in DOMAIN pc : pc[w] \notin {"NotStarted", "Stopped"}}

\* C27: Start launches exactly MaxConcurrent workers; the workers that hold
\* an item are those between a take and the end of its push, they are at
\* most MaxConcurrent, and no two of them hold the same item.
C27_BoundedParallelism ==
    /\ started => DOMAIN pc = 1..cfg.MaxConcurrent
    /\ ~started => Running = {}
    /\ Cardinality(Running) <= cfg.MaxConcurrent
    /\ {w \in Workers : item[w] # NoItem} = {w \in Workers : pc[w] \in InFlight}
    /\ Cardinality({w \in Workers : pc[w] \in InFlight}) <= cfg.MaxConcurrent
    /\ \A v, w \in Workers : (item[v] # NoItem /\ item[v] = item[w]) => v = w

\* both workers of a crawl with MaxConcurrent = 2 hold an item
C27_Witness ==
    /\ cfg.MaxConcurrent = 2
    /\ \A w \in Workers : pc[w] \in InFlight /\ item[w] # NoItem

C29_FinalTally ==
    /\ stats.errors <= stats.processed
    /\ Len(results) <= stats.processed
    /\ started => stats.processed - Len(results) <= cfg.MaxConcurrent
    /\ resultsClosed =>
          /\ stats.processed = Len(results)
          /\ stats.errors = Cardinality({i \in DOMAIN results : results[i].err})

\* the stream is closed after Results with and without an error
C29_Witness ==
    /\ resultsClosed
    /\ stats.errors >= 1
    /\ stats.processed > stats.errors

\* C30: the Results not yet received are those of the workers blocked in
\* the send, one each; such a worker keeps its item and does nothing until
\* its Result, unchanged, is received, and only then pushes the links.
C30_Backpressure ==
    /\ [](stats.processed - Len(results) =
              Cardinality({w \in Workers : pc[w] = "Emitting"}))
    /\ [][\A w \in Workers :
             pc[w] = "Emitting" =>
                 IF pc'[w] = "Emitting"
                 THEN /\ item'[w] = item[w]
                      /\ pageErr'[w] = pageErr[w]
                      /\ pageLinks'[w] = pageLinks[w]
                 ELSE /\ pc'[w] = "Admitting"
                      /\ results' = Append(results, [url |-> String(item[w].url),
                                                     err |-> pageErr[w],
                                                     depth |-> item[w].depth])
                      /\ queue' = queue /\ seen' = seen
                      /\ fetchLog' = fetchLog /\ requests' = requests]_vars

\* two workers are blocked in the send, each with its own Result
C30_Witness ==
    /\ cfg.MaxConcurrent = 2
    /\ \A w \in Workers : pc[w] = "Emitting"
    /\ item[1] # item[2]

\* the loc of the sitemap entry of a Result's URL
LocOf(url) ==
    IF cfg.StripQueryParams THEN String([ParseURL(url) EXCEPT !.query = ""]) ELSE url

\* the locs of the Results without error on the base host, in stream order
RECURSIVE ExpectedLocs(_)
ExpectedLocs(res) ==
    IF res = <<>> THEN <<>>
    ELSE (IF ~Head(res).err /\ ParseURL(Head(res).url).host = BaseURLOf(cfg.site).host
          THEN <<LocOf(Head(res).url)>> ELSE <<>>) \o ExpectedLocs(Tail(res))

\* C31: when the stream has been consumed the builder holds, in stream
\* order, one entry for each Result without error whose host is the base
\* host and no other entry; AddURL of a URL of another host adds nothing.
C31_SitemapHandOff ==
    /\ resultsClosed => urlset = ExpectedLocs(results)
    /\ crawler = "ok" =>
          \A u \in Probes :
              u.host # BaseURLOf(cfg.site).host =>
                  AddURL(String(u), BaseURLOf(cfg.site), cfg.StripQueryParams) = <<>>

\* the stream is closed after a Result with an error and two without, so
\* the builder holds fewer entries than there are Results
C31_Witness ==
    /\ resultsClosed
    /\ \E i \in DOMAIN results : results[i].err
    /\ Len(urlset) >= 2
    /\ Len(urlset) < Len(results)

\* C32: in a crawl that is not cancelled some worker has not stopped while
\* the queue holds an item, and the worker that stops last leaves an empty
\* queue and no item in flight.
C32_WorkNeverOrphaned ==
    /\ []((started /\ ~cancelled /\ queue # <<>>) => \E w \in Workers : pc[w] # "Stopped")
    /\ []((started /\ ~cancelled /\ AllStopped) =>
              queue = <<>> /\ \A w \in Workers : item[w] = NoItem)
    /\ [][\A w \in Workers :
             (~cancelled /\ pc[w] # "Stopped" /\ pc'[w] = "Stopped"
                  /\ \A v \in Workers \ {w} : pc[v] = "Stopped") =>
                 queue' = <<>>]_vars

\* one worker found the queue empty and stopped, and the other has since
\* pushed links that wait in the queue
C32_Witness ==
    /\ ~cancelled
    /\ queue # <<>>
    /\ \E v, w \in Workers : pc[v] = "Stopped" /\ pc[w] \in {"Idle", "RateLimitWait", "Taking"}

\* the number of takes a worker at place p of its loop can still make, and
\* the number of Results it can still emit, before it is next at the top
\* of the loop
TakesLeft(p) == IF p = "Taking" THEN 1 ELSE 0

ResultsLeft(p) == IF p \in {"Taking", "Fetching", "Emitting"} THEN 1 ELSE 0

\* worker w takes an item from the queue in this step
Took(w) == pc[w] = "Taking" /\ pc'[w] # "Taking" /\ queue # <<>>

\* worker w hands a Result over in this step
Emitted(w) == pc[w] = "Emitting" /\ pc'[w] # "Emitting"

\* C33: once the context is cancelled a worker at the top of its loop
\* stops, and every worker has at most one take and at most one Result
\* left, which a take and a hand-off use up and no step gives back; so no
\* worker takes or emits twice after the cancellation, and the Results
\* still to come number at most MaxConcurrent.
C33_BoundedAfterCancel ==
    /\ []((started /\ cancelled) =>
              Cardinality({w \in Workers : ResultsLeft(pc[w]) = 1}) <= cfg.MaxConcurrent)
    /\ [][cancelled =>
             /\ \A w \in Workers :
                  /\ (pc[w] = "Idle" /\ pc'[w] # "Idle") => pc'[w] = "Stopped"
                  /\ pc[w] = "Stopped" => pc'[w] = "Stopped"
                  /\ TakesLeft(pc'[w]) + (IF Took(w) THEN 1 ELSE 0) <= TakesLeft(pc[w])
                  /\ ResultsLeft(pc'[w]) + (IF Emitted(w) THEN 1 ELSE 0) <= ResultsLeft(pc[w])
             /\ Len(queue') < Len(queue) => \E w \in Workers : Took(w)
             /\ results' # results =>
                  /\ Len(results') = Len(results) + 1
                  /\ \E w \in Workers : Emitted(w)]_vars

\* the context is cancelled while one worker is past the check with an item
\* to take and another is still fetching or handing off
C33_Witness ==
    /\ cancelled
    /\ \E w, v \in Workers :
          /\ w # v
          /\ pc[w] = "Taking" /\ queue # <<>>
          /\ pc[v] \in {"Fetching", "Emitting"}

\* C34: a worker that has a Result to hand over leaves the hand-off only
\* in a step in which the consumer receives that Result, cancelled or not;
\* as long as it waits it has not stopped, the stream is open and done is
\* not closed, so Wait() does not return.
C34_HandOffOnlyByConsumer ==
    /\ []((\E w \in Workers : pc[w] = "Emitting") => ~resultsClosed /\ ~doneClosed)
    /\ [][\A w \in Workers :
             pc[w] = "Emitting" =>
                 \/ /\ pc'[w] = "Emitting"
                    /\ ~resultsClosed' /\ ~doneClosed'
                 \/ /\ pc'[w] = "Admitting"
                    /\ results' = Append(results, [url |-> String(item[w].url),
                                                   err |-> pageErr[w],
                                                   depth |-> item[w].depth])]_vars

\* the context is cancelled and every worker has stopped but one, which
\* waits with its Result for the consumer
C34_Witness ==
    /\ cancelled
    /\ ~resultsClosed
    /\ \E w \in Workers :
          /\ pc[w] = "Emitting"
          /\ \A v \in Workers \ {w} : pc[v] = "Stopped"

\* C35: the results channel is closed once, after every worker has
\* stopped; nothing is sent on it once it is closed; and done is closed,
\* which is what lets Wait() return, only after the results channel.
C35_StreamClosureSafety ==
    /\ [](resultsClosed => started /\ AllStopped)
    /\ [](doneClosed => resultsClosed)
    /\ [][/\ (~resultsClosed /\ resultsClosed') => (AllStopped /\ ~doneClosed /\ pc' = pc)
          /\ resultsClosed => (resultsClosed' /\ results' = results /\ pc' = pc)
          /\ (ENABLED CloseResults) => ~resultsClosed
          /\ doneClosed => doneClosed']_vars

\* the crawl has ended with Results delivered: the channel is closed and
\* Wait() has returned
C35_Witness ==
    /\ resultsClosed
    /\ doneClosed
    /\ Len(results) >= 2

====
